---------------------------- MODULE Spec2Model ----------------------------
(***************************************************************************)
(* A model of excel-mcp-server's value inference and range transfer:       *)
(*   src/src/excel_mcp/data.py    _infer_and_convert_data_type,            *)
(*                                read_excel_range, write_data,            *)
(*                                _write_data_to_worksheet,                *)
(*                                read_excel_range_with_metadata           *)
(*   src/src/excel_mcp/server.py  auto_format_data_range, get_excel_path,  *)
(*                                run_sse, run_stdio, read_data_from_excel,*)
(*                                write_data_to_excel                      *)
(*                                                                         *)
(* A text is a sequence of one-character strings, so that the code's       *)
(* slicing, replacing and pattern matching can be computed.  A cell value  *)
(* is a record tagged by k: "none", "str", "int", "float", "bool", "date", *)
(* "datetime".  A float is held by its decimal value, mantissa m times     *)
(* 10^e with m not divisible by 10, or as infinity.                        *)
(***************************************************************************)
EXTENDS Integers, Sequences, FiniteSets, TLC

(***************************************************************************)
(* Bounds of the model.                                                    *)
(***************************************************************************)
\* longest text enumerated in full over Alphabet
MaxLen == 3

\* tool calls in one run of the server
MaxCalls == 2

(***************************************************************************)
(* Characters and the str methods the code uses.                           *)
(***************************************************************************)
Digits == {"0", "1", "2", "3", "4", "5", "6", "7", "8", "9"}

DigitSeq == <<"0", "1", "2", "3", "4", "5", "6", "7", "8", "9">>

UpperSeq == <<"A", "B", "C", "D", "E", "F", "G", "H", "I", "J", "K", "L", "M",
              "N", "O", "P", "Q", "R", "S", "T", "U", "V", "W", "X", "Y", "Z">>

LowerSeq == <<"a", "b", "c", "d", "e", "f", "g", "h", "i", "j", "k", "l", "m",
              "n", "o", "p", "q", "r", "s", "t", "u", "v", "w", "x", "y", "z">>

\* the currency symbols of the code's patterns
CurrencySymbols == {"$", "€", "£", "¥"}

DigitVal(c) == CHOOSE d \in 0..9 : DigitSeq[d + 1] = c

IsSpace(c) == c = " "

IsDigits(s) == \A i \in 1..Len(s) : s[i] \in Digits

\* str.isdigit(): non-empty and every character a digit
IsDigitStr(s) == s # <<>> /\ IsDigits(s)

SubStr(s, a, b) == IF a > b THEN <<>> ELSE SubSeq(s, a, b)

SetMax(S) == CHOOSE x \in S : \A y \in S : y <= x
SetMin(S) == CHOOSE x \in S : \A y \in S : x <= y

\* s cut to the span of the positions idx
Span(s, idx) == IF idx = {} THEN <<>> ELSE SubSeq(s, SetMin(idx), SetMax(idx))

\* str.strip()
Strip(s) == Span(s, {i \in 1..Len(s) : ~IsSpace(s[i])})

\* str.replace(c, "") for each c of cs
Remove(s, cs) == SelectSeq(s, LAMBDA c : c \notin cs)

Contains(s, c) == \E i \in 1..Len(s) : s[i] = c

\* str.lower(), on the letters A-Z
LowerChar(c) ==
  IF \E i \in 1..26 : UpperSeq[i] = c
  THEN LowerSeq[CHOOSE i \in 1..26 : UpperSeq[i] = c]
  ELSE c

Lower(s) == [i \in 1..Len(s) |-> LowerChar(s[i])]

\* the decimal digits of a natural number, and back
RECURSIVE NatDigits(_)
NatDigits(n) == IF n < 10 THEN <<DigitSeq[n + 1]>>
                ELSE Append(NatDigits(n \div 10), DigitSeq[(n % 10) + 1])

RECURSIVE DigitsNat(_)
DigitsNat(s) == IF s = <<>> THEN 0
                ELSE 10 * DigitsNat(SubSeq(s, 1, Len(s) - 1)) + DigitVal(s[Len(s)])

RECURSIVE Zeros(_)
Zeros(n) == IF n <= 0 THEN <<>> ELSE <<"0">> \o Zeros(n - 1)

RECURSIVE StripLeadingZeros(_)
StripLeadingZeros(s) == IF s # <<>> /\ s[1] = "0" THEN StripLeadingZeros(Tail(s)) ELSE s

RECURSIVE StripTrailingZeros(_)
StripTrailingZeros(s) ==
  IF s # <<>> /\ s[Len(s)] = "0" THEN StripTrailingZeros(SubSeq(s, 1, Len(s) - 1)) ELSE s

\* the parts of s between the occurrences of c: str.split(c)
RECURSIVE SplitOn(_, _)
SplitOn(s, c) ==
  IF ~Contains(s, c) THEN <<s>>
  ELSE <<SubStr(s, 1, SetMin({i \in 1..Len(s) : s[i] = c}) - 1)>>
       \o SplitOn(SubStr(s, SetMin({i \in 1..Len(s) : s[i] = c}) + 1, Len(s)), c)

(***************************************************************************)
(* Cell values.                                                            *)
(***************************************************************************)
NoneV == [k |-> "none"]
StrV(s) == [k |-> "str", s |-> s]
IntV(n) == [k |-> "int", n |-> n]
BoolV(b) == [k |-> "bool", b |-> b]
FloatV(neg, m, e) == [k |-> "float", neg |-> neg, m |-> m, e |-> e]
InfV(neg) == [k |-> "float", neg |-> neg, m |-> -1, e |-> 0]
NanV == [k |-> "float", neg |-> FALSE, m |-> -2, e |-> 0]
DateV(y, mo, d) == [k |-> "date", y |-> y, mo |-> mo, d |-> d]
DateTimeV(y, mo, d, h, mi, sec) ==
  [k |-> "datetime", y |-> y, mo |-> mo, d |-> d, h |-> h, mi |-> mi, sec |-> sec]

\* an empty JSON object among the rows: str() renders it, a cell refuses it
DictV == [k |-> "dict"]

IsInf(v) == v.k = "float" /\ v.m = -1
IsNan(v) == v.k = "float" /\ v.m = -2

\* a failed conversion (the code's ValueError)
Fail == [k |-> "error"]

(***************************************************************************)
(* Python's int(text) and float(text), as the code calls them.             *)
(***************************************************************************)
\* digit (["_"] digit)* : the digit part of Python's number grammar
IsDigitPart(s) ==
  /\ s # <<>>
  /\ \A i \in 1..Len(s) : s[i] \in Digits \/ s[i] = "_"
  /\ s[1] # "_" /\ s[Len(s)] # "_"
  /\ \A i \in 1..(Len(s) - 1) : ~(s[i] = "_" /\ s[i + 1] = "_")

HasSign(s) == s # <<>> /\ s[1] \in {"+", "-"}

IsNegative(s) == s # <<>> /\ s[1] = "-"

Unsigned(s) == IF HasSign(s) THEN Tail(s) ELSE s

Signed(neg, n) == IF neg THEN -n ELSE n

\* the number a digit part denotes
DigitPartNat(s) == DigitsNat(Remove(s, {"_"}))

PyIntStripped(t) ==
  IF ~IsDigitPart(Unsigned(t)) THEN Fail
  ELSE IntV(Signed(IsNegative(t), DigitPartNat(Unsigned(t))))

\* int(text): optional sign and a digit part; anything else raises ValueError
PyInt(s) == PyIntStripped(Strip(s))

\* the digits of the largest finite double, 1.7976931348623158e308 rounds to it
MaxDoubleDigits == <<"1", "7", "9", "7", "6", "9", "3", "1", "3", "4", "8", "6",
                     "2", "3", "1", "5", "8">>

\* whether the digit sequence a, read as 0.a, exceeds 0.b
RECURSIVE DigitsGreater(_, _)
DigitsGreater(a, b) ==
  IF a = <<>> THEN FALSE
  ELSE IF b = <<>> THEN a # Zeros(Len(a))
  ELSE IF a[1] # b[1] THEN DigitVal(a[1]) > DigitVal(b[1])
  ELSE DigitsGreater(Tail(a), Tail(b))

\* the float of digits ds times 10^e, of decimal magnitude mag
FloatOfMagnitude(neg, ds, e, mag) ==
  IF ds = <<>> THEN FloatV(neg, 0, 0)
  ELSE IF mag > 309 \/ (mag = 309 /\ DigitsGreater(ds, MaxDoubleDigits))
       THEN InfV(neg)     \* beyond the largest double: infinity
  ELSE IF mag < -323 THEN FloatV(neg, 0, 0)     \* below the smallest: zero
  ELSE FloatV(neg, DigitsNat(ds), e)

\* the float whose decimal digits are ds (no zero at either end) times 10^e
MakeFloat(neg, ds, e) == FloatOfMagnitude(neg, ds, e, Len(ds) + e)

\* digits all, of which sig are left without the trailing zeros, times 10^e
FloatOfDigits(neg, all, sig, e) == MakeFloat(neg, sig, e + (Len(all) - Len(sig)))

\* integer digits ip, fraction digits fp, exponent ex
PyFloatDigits(neg, ip, fp, ex) ==
  IF \/ ~(ip = <<>> \/ IsDigitPart(ip))
     \/ ~(fp = <<>> \/ IsDigitPart(fp))
     \/ (ip = <<>> /\ fp = <<>>)
  THEN Fail
  ELSE FloatOfDigits(neg, StripLeadingZeros(Remove(ip \o fp, {"_"})),
                     StripTrailingZeros(StripLeadingZeros(Remove(ip \o fp, {"_"}))),
                     ex - Len(Remove(fp, {"_"})))

\* the mantissa split at ".", and the exponent text
PyFloatMantissa(neg, mparts, expo) ==
  IF Len(mparts) > 2 \/ ~IsDigitPart(Unsigned(expo)) THEN Fail
  ELSE PyFloatDigits(neg, mparts[1], IF Len(mparts) = 2 THEN mparts[2] ELSE <<>>,
                     Signed(IsNegative(expo), DigitPartNat(Unsigned(expo))))

\* the unsigned text split at "e"; without an exponent it is 0
PyFloatParts(neg, parts) ==
  IF Len(parts) > 2 THEN Fail
  ELSE PyFloatMantissa(neg, SplitOn(parts[1], "."), IF Len(parts) = 2 THEN parts[2] ELSE <<"0">>)

PyFloatBody(neg, body) ==
  IF body \in {<<"i", "n", "f">>, <<"i", "n", "f", "i", "n", "i", "t", "y">>} THEN InfV(neg)
  ELSE IF body = <<"n", "a", "n">> THEN NanV
  ELSE PyFloatParts(neg, SplitOn(body, "e"))

PyFloatStripped(t) == PyFloatBody(IsNegative(t), Lower(Unsigned(t)))

\* float(text): [sign] (digits [. digits] | . digits) [e [sign] digits], or
\* inf, infinity, nan; anything else raises ValueError
PyFloat(s) == PyFloatStripped(Strip(s))

\* float / 100
Div100(v) == IF v.m <= 0 THEN v ELSE MakeFloat(v.neg, NatDigits(v.m), v.e - 2)

(***************************************************************************)
(* Python's str(value), which the code applies to whatever it is given.    *)
(***************************************************************************)
PadDigits(d, w) == Zeros(w - Len(d)) \o d

Pad(n, w) == PadDigits(NatDigits(n), w)

\* digits ds times 10^e in fixed notation
FixedRepr(ds, e, k) ==
  IF e >= 0 THEN ds \o Zeros(e) \o <<".", "0">>
  ELSE IF k + e > 0 THEN SubSeq(ds, 1, k + e) \o <<".">> \o SubSeq(ds, k + e + 1, k)
  ELSE <<"0", ".">> \o Zeros(-(k + e)) \o ds

\* digits ds in scientific notation with decimal exponent x of size ax
SciRepr(ds, x, ax) ==
  <<ds[1]>> \o (IF Len(ds) > 1 THEN <<".">> \o Tail(ds) ELSE <<>>)
  \o <<"e", IF x < 0 THEN "-" ELSE "+">> \o (IF ax < 10 THEN Pad(ax, 2) ELSE NatDigits(ax))

\* fixed notation for a decimal exponent x from -4 to 15, scientific otherwise
DigitsRepr(ds, e, x) ==
  IF x >= -4 /\ x < 16 THEN FixedRepr(ds, e, Len(ds)) ELSE SciRepr(ds, x, IF x < 0 THEN -x ELSE x)

MagnitudeRepr(ds, e) == DigitsRepr(ds, e, Len(ds) - 1 + e)

\* repr of a float: the shortest digits that give it back
FloatRepr(v) ==
  (IF v.neg /\ ~IsNan(v) THEN <<"-">> ELSE <<>>)
  \o (IF IsInf(v) THEN <<"i", "n", "f">>
      ELSE IF IsNan(v) THEN <<"n", "a", "n">>
      ELSE IF v.m = 0 THEN <<"0", ".", "0">>
      ELSE MagnitudeRepr(NatDigits(v.m), v.e))

DateStr(v) == Pad(v.y, 4) \o <<"-">> \o Pad(v.mo, 2) \o <<"-">> \o Pad(v.d, 2)

TimeStr(v) == Pad(v.h, 2) \o <<":">> \o Pad(v.mi, 2) \o <<":">> \o Pad(v.sec, 2)

ToStr(v) ==
  CASE v.k = "str" -> v.s
    [] v.k = "int" -> (IF v.n < 0 THEN <<"-">> \o NatDigits(-v.n) ELSE NatDigits(v.n))
    [] v.k = "float" -> FloatRepr(v)
    [] v.k = "bool" -> (IF v.b THEN <<"T", "r", "u", "e">> ELSE <<"F", "a", "l", "s", "e">>)
    [] v.k = "date" -> DateStr(v)
    [] v.k = "datetime" -> DateStr(v) \o <<" ">> \o TimeStr(v)
    [] v.k = "dict" -> <<"{", "}">>
    [] OTHER -> <<"N", "o", "n", "e">>

(***************************************************************************)
(* Display formats: the number_format strings the code assigns.            *)
(***************************************************************************)
FmtPercent == "0.00%"
FmtCurrencyCents == "\"$\"#,##0.00"
FmtCurrencyInt == "\"$\"#,##0"
FmtDecimal == "0.00"
FmtInteger == "0"
FmtDate == "mm/dd/yyyy"
FmtDateTime == "mm/dd/yyyy h:mm"
\* the code's None in the place of a format
NoFormat == "None"

Inferred(v, f) == [v |-> v, f |-> f]

\* what a detection stage yields when it raises ValueError
Raised == Inferred(Fail, NoFormat)

(***************************************************************************)
(* The patterns of the numeric stage.                                      *)
(***************************************************************************)
IsDigitOrComma(c) == c \in Digits \/ c = ","

\* digits and commas up to the one "." at position p, digits after it
MatchAroundDot(s, p) ==
  /\ p > 1
  /\ \A i \in 1..(p - 1) : IsDigitOrComma(s[i])
  /\ \A i \in (p + 1)..Len(s) : s[i] \in Digits

\* [\d,]+\.?\d*$
MatchNumberBody(s) ==
  IF ~Contains(s, ".") THEN s # <<>> /\ \A i \in 1..Len(s) : IsDigitOrComma(s[i])
  ELSE /\ Cardinality({i \in 1..Len(s) : s[i] = "."}) = 1
       /\ MatchAroundDot(s, SetMin({i \in 1..Len(s) : s[i] = "."}))

\* currency_pattern: ^[\$€£¥]?[\d,]+\.?\d*$
MatchCurrency(s) ==
  MatchNumberBody(IF s # <<>> /\ s[1] \in CurrencySymbols THEN Tail(s) ELSE s)

\* number_pattern: ^-?[\d,]+\.?\d*$
MatchNumber(s) ==
  MatchNumberBody(IF s # <<>> /\ s[1] = "-" THEN Tail(s) ELSE s)

\* a stage's result from a conversion: the value with its format, or the raise
Converted(r, f) == IF r = Fail THEN Raised ELSE Inferred(r, f)

\* float(text) if the text holds a ".", int(text) otherwise, with the formats
\* of the branch; a failed conversion raises
FloatOrInt(isFloat, text, fFloat, fInt) ==
  IF isFloat THEN Converted(PyFloat(text), fFloat) ELSE Converted(PyInt(text), fInt)

\* a faulty variant: the percentage is taken as it is written, not over 100
PercentNotDivided(r) == IF r = Fail THEN Raised ELSE Inferred(r, FmtPercent)

PercentOf(r) == IF r = Fail THEN Raised ELSE Inferred(Div100(r), FmtPercent)

\* the percentage branch on the text before the "%", commas removed
PercentConvert(numeric_part) ==
  IF IsDigitStr(Remove(numeric_part, {".", "-"}))
  THEN PercentOf(PyFloat(numeric_part))
  ELSE Inferred(NoneV, NoFormat)

\* the percentage branch: None when the text is not a percentage
PercentDetect(s) ==
  IF s[Len(s)] = "%"
  THEN PercentConvert(Remove(SubStr(s, 1, Len(s) - 1), {","}))
  ELSE Inferred(NoneV, NoFormat)

DotFloatOrInt(numeric_part, fFloat, fInt) ==
  FloatOrInt(Contains(numeric_part, "."), numeric_part, fFloat, fInt)

\* the currency branch
CurrencyDetect(s) ==
  IF MatchCurrency(s)
  THEN DotFloatOrInt(Remove(s, CurrencySymbols \cup {","}), FmtCurrencyCents, FmtCurrencyInt)
  ELSE Inferred(NoneV, NoFormat)

\* the regular number branch
NumberDetect(s) ==
  IF MatchNumber(s)
  THEN DotFloatOrInt(Remove(s, {","}), FmtDecimal, FmtInteger)
  ELSE Inferred(NoneV, NoFormat)

\* the direct conversion that ends the numeric stage
DirectDetect(s) ==
  FloatOrInt(Contains(s, ".") \/ Contains(Lower(s), "e"), s, FmtDecimal, FmtInteger)

\* the branches in the order the code tries them: first, or else second
OrElse(first, second) == IF first.v # NoneV THEN first ELSE second

\* the try block of the numeric stage: the first branch that returns or raises
NumericDetect(s) ==
  OrElse(PercentDetect(s), OrElse(CurrencyDetect(s), OrElse(NumberDetect(s), DirectDetect(s))))

(***************************************************************************)
(* datetime.strptime over the code's date_formats.  A format is a sequence *)
(* of directives ("Y", "m", "d", "H", "M", "S") and literal characters; a  *)
(* blank of a format matches one or more blanks.                           *)
(***************************************************************************)
Directives == {"Y", "m", "d", "H", "M", "S"}

date_formats ==
  << <<"Y", "-", "m", "-", "d">>,
     <<"m", "/", "d", "/", "Y">>,
     <<"d", "/", "m", "/", "Y">>,
     <<"Y", "/", "m", "/", "d">>,
     <<"Y", "-", "m", "-", "d", " ", "H", ":", "M", ":", "S">>,
     <<"m", "/", "d", "/", "Y", " ", "H", ":", "M", ":", "S">>,
     <<"d", "/", "m", "/", "Y", " ", "H", ":", "M", ":", "S">>,
     <<"Y", "-", "m", "-", "d", " ", "H", ":", "M">>,
     <<"m", "/", "d", "/", "Y", " ", "H", ":", "M">>,
     <<"d", "/", "m", "/", "Y", " ", "H", ":", "M">> >>

\* one or two digits giving a number from lo to hi
FieldIn(t, lo, hi) ==
  Len(t) \in {1, 2} /\ IsDigits(t) /\ DigitsNat(t) >= lo /\ DigitsNat(t) <= hi

\* the text a directive's pattern accepts
FieldOk(dir, t) ==
  CASE dir = "Y" -> Len(t) = 4 /\ IsDigits(t)
    [] dir = "m" -> FieldIn(t, 1, 12)
    [] dir = "d" -> \/ FieldIn(t, 1, 31)
                    \/ Len(t) = 2 /\ t[1] = " " /\ t[2] \in Digits \ {"0"}
    [] dir = "H" -> FieldIn(t, 0, 23)
    [] dir = "M" -> FieldIn(t, 0, 59)
    [] dir = "S" -> FieldIn(t, 0, 61)

FieldVal(t) == DigitsNat(Remove(t, {" "}))

\* what ParseFields yields when the format does not match the whole text
NoParse == <<-1>>

\* the fields of rest after the field t
FieldThen(t, rest) == IF rest = NoParse THEN NoParse ELSE <<FieldVal(t)>> \o rest

\* the directive values of text s under format fmt, in the format's order;
\* a directive takes the longest text that lets the rest of the format match
RECURSIVE ParseFields(_, _)
RECURSIVE ParseDirective(_, _, _)
ParseDirective(s, fmt, lens) ==
  IF lens = {} THEN NoParse
  ELSE FieldThen(SubSeq(s, 1, SetMax(lens)), ParseFields(SubStr(s, SetMax(lens) + 1, Len(s)), Tail(fmt)))

ParseFields(s, fmt) ==
  IF fmt = <<>> THEN (IF s = <<>> THEN <<>> ELSE NoParse)
  ELSE IF Head(fmt) \in Directives
  THEN ParseDirective(s, fmt,
         {l \in {1, 2, 4} : /\ l <= Len(s)
                            /\ FieldOk(Head(fmt), SubSeq(s, 1, l))
                            /\ ParseFields(SubStr(s, l + 1, Len(s)), Tail(fmt)) # NoParse})
  ELSE IF Head(fmt) = " "
  THEN (IF s = <<>> \/ ~IsSpace(s[1]) THEN NoParse
        ELSE ParseFields(SubStr(s, Cardinality({i \in 1..Len(s) : \A j \in 1..i : IsSpace(s[j])}) + 1,
                                Len(s)), Tail(fmt)))
  ELSE IF s # <<>> /\ s[1] = Head(fmt)
  THEN ParseFields(Tail(s), Tail(fmt))
  ELSE NoParse

IsLeap(y) == (y % 4 = 0 /\ y % 100 # 0) \/ y % 400 = 0

DaysInMonth(y, mo) ==
  IF mo = 2 THEN (IF IsLeap(y) THEN 29 ELSE 28)
  ELSE IF mo \in {4, 6, 9, 11} THEN 30 ELSE 31

\* the field at the one position of at, 0 when there is none
FieldAt(fields, at) == IF at = {} THEN 0 ELSE fields[SetMin(at)]

\* the directives of a format, in order
DirectivesOf(fmt) == SelectSeq(fmt, LAMBDA c : c \in Directives)

\* the value of directive dir among the parsed fields (0 when absent)
FieldOf(fmt, fields, dir) ==
  FieldAt(fields, {i \in 1..Len(DirectivesOf(fmt)) : DirectivesOf(fmt)[i] = dir})

\* datetime(y, mo, d, h, mi, sec), which refuses a day the month lacks
MakeDateTime(y, mo, d, h, mi, sec) ==
  IF y < 1 \/ d > DaysInMonth(y, mo) \/ sec > 59 THEN Fail
  ELSE DateTimeV(y, mo, d, h, mi, sec)

DateTimeOf(fmt, fields) ==
  IF fields = NoParse THEN Fail
  ELSE MakeDateTime(FieldOf(fmt, fields, "Y"), FieldOf(fmt, fields, "m"),
                    FieldOf(fmt, fields, "d"), FieldOf(fmt, fields, "H"),
                    FieldOf(fmt, fields, "M"), FieldOf(fmt, fields, "S"))

\* datetime.strptime(s, fmt): a date-time, or Fail for its ValueError
Strptime(s, fmt) == DateTimeOf(fmt, ParseFields(s, fmt))

\* what the loop returns for a format that parsed
DateResult(fmt, parsed_date) ==
  IF Contains(fmt, "H")
  THEN Inferred(parsed_date, FmtDateTime)
  ELSE Inferred(DateV(parsed_date.y, parsed_date.mo, parsed_date.d), FmtDate)

\* the loop over date_formats from format i on: the first format that parses
RECURSIVE DateDetectFrom(_, _)
RECURSIVE DateDetectStep(_, _, _)
DateDetectStep(s, i, parsed_date) ==
  IF parsed_date = Fail THEN DateDetectFrom(s, i + 1)
  ELSE DateResult(date_formats[i], parsed_date)

DateDetectFrom(s, i) ==
  IF i > Len(date_formats) THEN Raised
  ELSE DateDetectStep(s, i, Strptime(s, date_formats[i]))

DateDetect(s) == DateDetectFrom(s, 1)

(***************************************************************************)
(* The boolean stage and the whole inference.                              *)
(***************************************************************************)
W(str) ==
  CASE str = "true" -> <<"t", "r", "u", "e">>
    [] str = "false" -> <<"f", "a", "l", "s", "e">>
    [] str = "yes" -> <<"y", "e", "s">>
    [] str = "no" -> <<"n", "o">>
    [] str = "1" -> <<"1">>
    [] str = "0" -> <<"0">>

BoolTexts == {W("true"), W("false"), W("yes"), W("no"), W("1"), W("0")}

TrueTexts == {W("true"), W("yes"), W("1")}

BoolDetect(s) ==
  IF Lower(s) \in BoolTexts
  THEN Inferred(BoolV(Lower(s) \in TrueTexts), NoFormat)
  ELSE Raised

\* a faulty variant: a stage's ValueError is not caught
Propagate(stage, next) == stage

\* a stage's result unless it raised ValueError, the next stage's then
Unless(stage, next) == IF stage # Raised THEN stage ELSE next

\* a faulty variant: the boolean stage is tried before the numeric one
InferTextBoolFirst(str_value) ==
  IF str_value = <<>> THEN Inferred(NoneV, NoFormat)
  ELSE IF BoolDetect(str_value) # Raised THEN BoolDetect(str_value)
  ELSE IF NumericDetect(str_value) # Raised THEN NumericDetect(str_value)
  ELSE IF DateDetect(str_value) # Raised THEN DateDetect(str_value)
  ELSE Inferred(StrV(str_value), NoFormat)

\* the stages on the trimmed text: numeric, date, boolean, text
InferText(str_value) ==
  IF str_value = <<>> THEN Inferred(NoneV, NoFormat)
  ELSE Unless(NumericDetect(str_value),
              Unless(DateDetect(str_value),
                     Unless(BoolDetect(str_value), Inferred(StrV(str_value), NoFormat))))

\* _infer_and_convert_data_type(value): (converted_value, number_format)
InferAndConvert(value) ==
  IF value = NoneV \/ value = StrV(<<>>) THEN Inferred(NoneV, NoFormat)
  ELSE InferText(Strip(ToStr(value)))

(***************************************************************************)
(* Cell addresses.  parse_cell_range lives in cell_utils, outside the      *)
(* sources at hand: it is modelled from the Address Parser's contract.     *)
(***************************************************************************)
Letters == {UpperSeq[i] : i \in 1..26} \cup {LowerSeq[i] : i \in 1..26}

UpperChar(c) ==
  IF \E i \in 1..26 : LowerSeq[i] = c
  THEN UpperSeq[CHOOSE i \in 1..26 : LowerSeq[i] = c]
  ELSE c

LetterVal(c) == CHOOSE i \in 1..26 : UpperSeq[i] = UpperChar(c)

\* base 26 with the symbols A-Z and no zero digit
RECURSIVE ColumnIndex(_)
ColumnIndex(ls) ==
  IF ls = <<>> THEN 0
  ELSE 26 * ColumnIndex(SubSeq(ls, 1, Len(ls) - 1)) + LetterVal(ls[Len(ls)])

\* get_column_letter
RECURSIVE ColumnLetter(_)
ColumnLetter(n) ==
  IF n <= 0 THEN <<>>
  ELSE ColumnLetter((n - 1) \div 26) \o <<UpperSeq[((n - 1) % 26) + 1]>>

NoCell == [ok |-> FALSE, row |-> 0, col |-> 0]

\* the column letters ls and the row digits rs of a reference
CellOf(ls, rs) ==
  IF /\ ls # <<>> /\ \A i \in 1..Len(ls) : ls[i] \in Letters
     /\ IsDigitStr(rs) /\ DigitsNat(rs) >= 1
  THEN [ok |-> TRUE, row |-> DigitsNat(rs), col |-> ColumnIndex(ls)]
  ELSE NoCell

\* the reference t cut before its first digit, at position p
ParseCellAt(t, p) == CellOf(SubStr(t, 1, p - 1), SubStr(t, p, Len(t)))

\* one cell reference: letters, then digits giving a row of at least 1
ParseCell(t) ==
  IF \E i \in 1..Len(t) : t[i] \in Digits
  THEN ParseCellAt(t, SetMin({i \in 1..Len(t) : t[i] \in Digits}))
  ELSE NoCell

\* the range from cell s to cell e
CellPair(ok, s, e) ==
  [ok |-> ok /\ s.ok /\ e.ok,
   start_row |-> s.row, start_col |-> s.col, end_row |-> e.row, end_col |-> e.col]

RangeOfParts(parts) ==
  CellPair(Len(parts) <= 2, ParseCell(parts[1]), ParseCell(parts[IF Len(parts) = 2 THEN 2 ELSE 1]))

\* parse_cell_range(text): a bare reference or start:end; ok is FALSE for
\* the ValueError of a malformed text
ParseCellRange(text) == RangeOfParts(SplitOn(text, ":"))

\* parse_cell_range(start_cell, end_cell), as auto_format_data_range calls it
ParseCellPair(start_cell, end_cell) == CellPair(TRUE, ParseCell(start_cell), ParseCell(end_cell))

(***************************************************************************)
(* The workbook.  A sheet maps the positions <<row, column>> it holds to   *)
(* cells [v, f]: value and display format.  A stored file holds the sheet  *)
(* names in order and their sheets.                                        *)
(***************************************************************************)
General == "General"

EmptyCell == [v |-> NoneV, f |-> General]

EmptySheet == [p \in {} |-> EmptyCell]

\* ws.cell(row, column), read
CellAt(ws, row, col) == IF <<row, col>> \in DOMAIN ws THEN ws[<<row, col>>] ELSE EmptyCell

\* ws.cell(row, column) assigned
SetCell(ws, row, col, cell) ==
  [p \in DOMAIN ws \cup {<<row, col>>} |-> IF p = <<row, col>> THEN cell ELSE ws[p]]

\* the sheet's reported boundary: of the cells it holds, 1 when it holds none
max_row(ws) == IF DOMAIN ws = {} THEN 1 ELSE SetMax({p[1] : p \in DOMAIN ws})
max_column(ws) == IF DOMAIN ws = {} THEN 1 ELSE SetMax({p[2] : p \in DOMAIN ws})
min_row(ws) == IF DOMAIN ws = {} THEN 1 ELSE SetMin({p[1] : p \in DOMAIN ws})
min_column(ws) == IF DOMAIN ws = {} THEN 1 ELSE SetMin({p[2] : p \in DOMAIN ws})

\* wb.save: a cell with neither a value nor a display format is not stored
Stored(ws) ==
  LET keep == {p \in DOMAIN ws : ws[p] # EmptyCell}
  IN [p \in keep |-> ws[p]]

SheetNames(wb) == {wb.names[i] : i \in 1..Len(wb.names)}

\* wb.active.title
ActiveTitle(wb) == wb.names[1]

\* wb.create_sheet(name)
CreateSheet(wb, name) ==
  [names |-> Append(wb.names, name),
   ws |-> [n \in SheetNames(wb) \cup {name} |-> IF n = name THEN EmptySheet ELSE wb.ws[n]]]

\* the workbook with sheet name replaced, as wb.save stores it
SaveWith(wb, name, ws) ==
  [names |-> wb.names,
   ws |-> [n \in SheetNames(wb) |-> Stored(IF n = name THEN ws ELSE wb.ws[n])]]

(***************************************************************************)
(* Reading.  An outcome tells whether the call returned (ok) or raised     *)
(* (exc is the exception, error the head of its message), what it          *)
(* returned, how often it opened a workbook and whether it closed it, and  *)
(* the rectangle it resolved: the values of start_row, start_col, end_row, *)
(* end_col when it last set them.                                          *)
(***************************************************************************)
ErrSheet == "Sheet not found"
ErrStart == "Invalid start cell format"
ErrEnd == "Invalid end cell format"
ErrUnpack == "too many values to unpack"
ErrNoData == "No data provided to write"
ErrConvert == "Cannot convert to Excel"
ErrReference == "Invalid cell reference"

\* An exception: its class, the parts of its message in order, and the
\* message of the exception first raised.
NoError == [kind |-> "", msg |-> <<"">>, cause |-> ""]
DataError(m) == [kind |-> "DataError", msg |-> <<m>>, cause |-> m]
ValueError(m) == [kind |-> "ValueError", msg |-> <<m>>, cause |-> m]

\* except ValueError as e: raise DataError(f"<prefix>: {str(e)}")
Prefixed(prefix, e) == [kind |-> "DataError", msg |-> <<prefix>> \o e.msg, cause |-> e.cause]

\* a faulty variant: no handler at the end of the function
Escaping(e) == e

\* except DataError: raise, and except Exception as e: raise DataError(str(e))
Reraise(e) == IF e.kind = "DataError" THEN e ELSE [e EXCEPT !.kind = "DataError"]

\* the start and end texts after the split of a start text holding ":"
SplitStart(start_cell, end_cell) ==
  LET parts == SplitOn(start_cell, ":")
  IN IF ~Contains(start_cell, ":") THEN [ok |-> TRUE, start_cell |-> start_cell, end_cell |-> end_cell]
     ELSE IF Len(parts) # 2 THEN [ok |-> FALSE, start_cell |-> start_cell, end_cell |-> end_cell]
     ELSE [ok |-> TRUE, start_cell |-> parts[1], end_cell |-> parts[2]]

\* a faulty variant: an empty sheet is read by its boundary like any other
NeverSingle(ws) == FALSE

\* the sheet shows a single empty cell
SingleEmptyCell(ws) == max_row(ws) = 1 /\ max_column(ws) = 1 /\ CellAt(ws, 1, 1).v = NoneV

\* a faulty variant: only the rows are checked
BeyondRows(ws, rect) == rect.start_row > max_row(ws)

\* the start of the rectangle lies beyond the sheet's boundary
BeyondBoundary(ws, rect) ==
  rect.start_row > max_row(ws) \/ rect.start_col > max_column(ws)

NoRect == [start_row |-> 0, start_col |-> 0, end_row |-> 0, end_col |-> 0]

\* the exception e raised inside the try block of a read, as it leaves it
Raise(e, stage, rect) ==
  [ok |-> FALSE, error |-> Reraise(e).msg[1], exc |-> Reraise(e), stage |-> stage, rect |-> rect,
   data |-> <<>>, range |-> <<>>, opened |-> 1, closed |-> FALSE]

Return(data, range, stage, rect, closed) ==
  [ok |-> TRUE, error |-> "", exc |-> NoError, stage |-> stage, rect |-> rect,
   data |-> data, range |-> range, opened |-> 1, closed |-> closed]

\* the values of row r from column c1 to c2
RowData(ws, r, c1, c2) == [i \in 1..(c2 - c1 + 1) |-> CellAt(ws, r, c1 + i - 1).v]

\* a faulty variant: every row is kept
AnyRow(row_data) == TRUE

\* any(v is not None for v in row_data)
AnyValue(row_data) == \E i \in 1..Len(row_data) : row_data[i] # NoneV

\* read_excel_range(filepath, sheet_name, start_cell, end_cell)
read_excel_range(wb, sheet_name, start_cell0, end_cell0) ==
  LET sp == SplitStart(start_cell0, end_cell0)
      start_cell == sp.start_cell
      end_cell == sp.end_cell
      ws == wb.ws[sheet_name]
      start_coords == ParseCellRange(start_cell \o <<":">> \o start_cell)
      end_coords == ParseCellRange(end_cell \o <<":">> \o end_cell)
      parsed == [start_row |-> start_coords.start_row, start_col |-> start_coords.start_col,
                 end_row |-> 0, end_col |-> 0]
      rect == IF end_cell # <<>>
              THEN [parsed EXCEPT !.end_row = end_coords.start_row,
                                  !.end_col = end_coords.start_col]
              ELSE IF SingleEmptyCell(ws)
              THEN [parsed EXCEPT !.end_row = parsed.start_row, !.end_col = parsed.start_col]
              ELSE [start_row |-> min_row(ws), start_col |-> min_column(ws),
                    end_row |-> max_row(ws), end_col |-> max_column(ws)]
      rows == [i \in 1..(rect.end_row - rect.start_row + 1) |->
                 RowData(ws, rect.start_row + i - 1, rect.start_col, rect.end_col)]
      data == SelectSeq(rows, AnyValue)
  IN IF sheet_name \notin SheetNames(wb) THEN Raise(DataError(ErrSheet), "sheet", NoRect)
     ELSE IF ~sp.ok THEN Raise(ValueError(ErrUnpack), "split", NoRect)
     ELSE IF ~start_coords.ok THEN Raise(Prefixed(ErrStart, ValueError(ErrReference)), "start", NoRect)
     ELSE IF end_cell # <<>> /\ ~end_coords.ok THEN Raise(Prefixed(ErrEnd, ValueError(ErrReference)), "end", parsed)
     ELSE IF BeyondBoundary(ws, rect)
          THEN Return(<<>>, <<>>, "bounds", rect, FALSE)
     ELSE Return(data, <<>>, "done", rect, TRUE)

NoValidation == "has_validation: False"
NotIncluded == "absent"

A1 == <<"A", "1">>

\* the address of a cell: column letters, then the row
Address(row, col) == ColumnLetter(col) \o NatDigits(row)

\* read_excel_range_with_metadata(filepath, sheet_name, start_cell, end_cell,
\* include_validation); the validation lookup finds no rule
read_excel_range_with_metadata(wb, sheet_name, start_cell0, end_cell0, include_validation) ==
  LET sp == SplitStart(start_cell0, end_cell0)
      start_cell == sp.start_cell
      end_cell == sp.end_cell
      ws == wb.ws[sheet_name]
      start_coords == ParseCellRange(start_cell \o <<":">> \o start_cell)
      end_coords == ParseCellRange(end_cell \o <<":">> \o end_cell)
      parsed == [start_row |-> start_coords.start_row, start_col |-> start_coords.start_col,
                 end_row |-> 0, end_col |-> 0]
      rect == IF end_cell # <<>>
              THEN [parsed EXCEPT !.end_row = end_coords.start_row,
                                  !.end_col = end_coords.start_col]
              ELSE IF SingleEmptyCell(ws)
              THEN [parsed EXCEPT !.end_row = parsed.start_row, !.end_col = parsed.start_col]
              ELSE [start_row |-> IF start_cell = A1 THEN min_row(ws) ELSE parsed.start_row,
                    start_col |-> IF start_cell = A1 THEN min_column(ws) ELSE parsed.start_col,
                    end_row |-> max_row(ws), end_col |-> max_column(ws)]
      h == rect.end_row - rect.start_row + 1
      w == rect.end_col - rect.start_col + 1
      cell_data(row, col) ==
        [address |-> Address(row, col), value |-> CellAt(ws, row, col).v,
         row |-> row, column |-> col,
         validation |-> IF include_validation THEN NoValidation ELSE NotIncluded]
      cells == IF h <= 0 \/ w <= 0 THEN <<>>
               ELSE [n \in 1..(h * w) |->
                       cell_data(rect.start_row + ((n - 1) \div w), rect.start_col + ((n - 1) % w))]
      range_str == Address(rect.start_row, rect.start_col) \o <<":">>
                   \o Address(rect.end_row, rect.end_col)
  IN IF sheet_name \notin SheetNames(wb) THEN Raise(DataError(ErrSheet), "sheet", NoRect)
     ELSE IF ~sp.ok THEN Raise(ValueError(ErrUnpack), "split", NoRect)
     ELSE IF ~start_coords.ok THEN Raise(Prefixed(ErrStart, ValueError(ErrReference)), "start", NoRect)
     ELSE IF end_cell # <<>> /\ ~end_coords.ok THEN Raise(Prefixed(ErrEnd, ValueError(ErrReference)), "end", parsed)
     ELSE IF BeyondBoundary(ws, rect)
          THEN Return(<<>>, start_cell \o <<":">>, "bounds", rect, FALSE)
     ELSE Return(cells, range_str, "done", rect, TRUE)

(***************************************************************************)
(* Writing.  The rows argument is [given, rows]: given is FALSE for an     *)
(* absent argument (None).                                                 *)
(***************************************************************************)
NoRows == [given |-> FALSE, rows |-> <<>>]
Rows(rs) == [given |-> TRUE, rows |-> rs]

\* a faulty variant: only an absent argument counts as no data
DataIsNone(data) == ~data.given

\* not data
IsEmptyData(data) == ~data.given \/ data.rows = <<>>

\* the positions of the rows in writing order: <<i, j>> from 0, row-major
RECURSIVE Positions(_, _)
Positions(rows, i) ==
  IF i > Len(rows) THEN <<>>
  ELSE [j \in 1..Len(rows[i]) |-> <<i - 1, j - 1>>] \o Positions(rows, i + 1)

\* a faulty variant: the values are inferred whatever the caller asked
WriteCellInferred(ws, row, col, val, auto_detect_types) ==
  SetCell(ws, row, col,
          [v |-> InferAndConvert(val).v,
           f |-> IF InferAndConvert(val).f # NoFormat THEN InferAndConvert(val).f
                 ELSE CellAt(ws, row, col).f])

\* cell.value = val and, with a format detected, cell.number_format = it
WriteCell(ws, row, col, val, auto_detect_types) ==
  LET inf == InferAndConvert(val)
      old == CellAt(ws, row, col)
  IN IF auto_detect_types
     THEN SetCell(ws, row, col, [v |-> inf.v, f |-> IF inf.f # NoFormat THEN inf.f ELSE old.f])
     ELSE SetCell(ws, row, col, [v |-> val, f |-> old.f])

\* the loop of _write_data_to_worksheet from position n on; it stops at the
\* first value a cell refuses
RECURSIVE WriteFrom(_, _, _, _, _, _, _)
WriteFrom(ws, rows, todo, n, start_row, start_col, auto_detect_types) ==
  IF n > Len(todo) THEN [ok |-> TRUE, exc |-> NoError, ws |-> ws, written |-> n - 1]
  ELSE LET i == todo[n][1]
           j == todo[n][2]
           val == rows[i + 1][j + 1]
       IN IF ~auto_detect_types /\ val = DictV
          THEN [ok |-> FALSE, exc |-> Reraise(ValueError(ErrConvert)), ws |-> ws,
                written |-> n - 1]
          ELSE WriteFrom(WriteCell(ws, start_row + i, start_col + j, val, auto_detect_types),
                         rows, todo, n + 1, start_row, start_col, auto_detect_types)

\* _write_data_to_worksheet(worksheet, data, start_cell, auto_detect_types)
write_data_to_worksheet(ws, data, start_cell, auto_detect_types) ==
  LET start_coords == ParseCellRange(start_cell)
  IN IF IsEmptyData(data)
     THEN [ok |-> FALSE, exc |-> Reraise(DataError(ErrNoData)), ws |-> ws, written |-> 0]
     ELSE IF ~start_coords.ok
     THEN [ok |-> FALSE, exc |-> Reraise(Prefixed(ErrStart, ValueError(ErrReference))),
           ws |-> ws, written |-> 0]
     ELSE WriteFrom(ws, data.rows, Positions(data.rows, 1), 1,
                    start_coords.start_row, start_coords.start_col, auto_detect_types)

\* what a write or a format call leaves: the stored file, and how often the
\* call opened, saved and closed a workbook
Outcome(ok, e, wb, sheet, opened, saves, closed, count) ==
  [ok |-> ok, error |-> e.msg[1], exc |-> e, file |-> wb, active_sheet |-> sheet,
   opened |-> opened, saves |-> saves, closed |-> closed, count |-> count]

NoSheet == ""

\* a faulty variant: the workbook is saved whether or not the loop went
\* through, so the cells written before a failure are stored
WriteDataSavingAlways(file, sheet_name0, data, start_cell, auto_detect_types) ==
  LET sheet_name == IF sheet_name0 = NoSheet THEN ActiveTitle(file) ELSE sheet_name0
      wb == IF sheet_name \notin SheetNames(file) THEN CreateSheet(file, sheet_name) ELSE file
      w == write_data_to_worksheet(wb.ws[sheet_name], data, start_cell, auto_detect_types)
  IN IF IsEmptyData(data)
     THEN Outcome(FALSE, Reraise(DataError(ErrNoData)), file, sheet_name0, 0, 0, FALSE, 0)
     ELSE Outcome(w.ok, Reraise(w.exc), SaveWith(wb, sheet_name, w.ws), sheet_name, 1, 1, TRUE,
                  w.written)

\* write_data(filepath, sheet_name, data, start_cell, auto_detect_types)
write_data(file, sheet_name0, data, start_cell, auto_detect_types) ==
  LET sheet_name == IF sheet_name0 = NoSheet THEN ActiveTitle(file) ELSE sheet_name0
      wb == IF sheet_name \notin SheetNames(file) THEN CreateSheet(file, sheet_name) ELSE file
      ws == wb.ws[sheet_name]
      start_coords == ParseCellRange(start_cell)
      w == IF Len(data.rows) > 0
           THEN write_data_to_worksheet(ws, data, start_cell, auto_detect_types)
           ELSE [ok |-> TRUE, exc |-> NoError, ws |-> ws, written |-> 0]
  IN IF IsEmptyData(data)
     THEN Outcome(FALSE, Reraise(DataError(ErrNoData)), file, sheet_name0, 0, 0, FALSE, 0)
     ELSE IF ~start_coords.ok
     THEN Outcome(FALSE, Reraise(Prefixed(ErrStart, ValueError(ErrReference))), file,
                  sheet_name, 1, 0, FALSE, 0)
     ELSE IF ~w.ok THEN Outcome(FALSE, Reraise(w.exc), file, sheet_name, 1, 0, FALSE, w.written)
     ELSE Outcome(TRUE, NoError, SaveWith(wb, sheet_name, w.ws), sheet_name, 1, 1, TRUE, w.written)

(***************************************************************************)
(* auto_format_data_range: it answers with a text, "Error: ..." on failure *)
(* (ok is FALSE then), and otherwise with the count of cells formatted.    *)
(***************************************************************************)
\* return f"Error: {m}": the failure is answered as a text, nothing is raised
Answer(m) == [kind |-> "text", msg |-> <<m>>, cause |-> m]

\* the loop over the cells of the rectangle from the n-th on, row-major
RECURSIVE FormatFrom(_, _, _, _)
FormatFrom(ws, rect, n, formatted_count) ==
  LET w == rect.end_col - rect.start_col + 1
      h == rect.end_row - rect.start_row + 1
      row == rect.start_row + ((n - 1) \div w)
      col == rect.start_col + ((n - 1) % w)
      cell == CellAt(ws, row, col)
      inf == InferAndConvert(cell.v)
  IN IF h <= 0 \/ w <= 0 \/ n > h * w THEN [ws |-> ws, count |-> formatted_count]
     ELSE IF cell.v # NoneV /\ inf.f # NoFormat /\ inf.v # NoneV
          THEN FormatFrom(SetCell(ws, row, col, [v |-> inf.v, f |-> inf.f]), rect, n + 1,
                          formatted_count + 1)
          ELSE FormatFrom(ws, rect, n + 1, formatted_count)

\* auto_format_data_range(filepath, sheet_name, start_cell, end_cell)
auto_format_data_range(file, sheet_name, start_cell, end_cell) ==
  LET ws == file.ws[sheet_name]
      coords == ParseCellPair(start_cell, end_cell)
      rect == IF end_cell # <<>>
              THEN [start_row |-> coords.start_row, start_col |-> coords.start_col,
                    end_row |-> coords.end_row, end_col |-> coords.end_col]
              ELSE [start_row |-> 1, start_col |-> 1,
                    end_row |-> max_row(ws), end_col |-> max_column(ws)]
      done == FormatFrom(ws, rect, 1, 0)
  IN IF sheet_name \notin SheetNames(file)
     THEN Outcome(FALSE, Answer(ErrSheet), file, sheet_name, 1, 0, FALSE, 0)
     ELSE IF end_cell # <<>> /\ ~coords.ok
     THEN Outcome(FALSE, Answer("Invalid cell range"), file, sheet_name, 1, 0, FALSE, 0)
     ELSE Outcome(TRUE, NoError, SaveWith(file, sheet_name, done.ws), sheet_name, 1, 1, TRUE, done.count)

(***************************************************************************)
(* The state: the stored workbook file, the last tool call with its        *)
(* arguments, the file it found and its outcome, and the number of calls.  *)
(* EXCEL_FILES_PATH is the module global of server.py, and transport the    *)
(* mode the server process was started in ("none" before it is started).   *)
(***************************************************************************)
VARIABLES file, call, ncalls, EXCEL_FILES_PATH, transport

vars == <<file, call, ncalls, EXCEL_FILES_PATH, transport>>

\* the global as the module sets it on import: None
Unset == [set |-> FALSE, dir |-> <<>>]
Configured(dir) == [set |-> TRUE, dir |-> dir]

\* texts of the examples
B2 == <<"B", "2">>
C3 == <<"C", "3">>
D2 == <<"D", "2">>
BadAddress == <<"1", "A">>
A1toB2 == <<"A", "1", ":", "B", "2">>
NoText == <<>>
TName == <<"N", "a", "m", "e">>
TAmount == <<"A", "m", "o", "u", "n", "t">>
TBob == <<"B", "o", "b">>
TDollars == <<"$", "1", ",", "2", "5", "0", ".", "0", "0">>
THalf == <<"5", "0", "%">>
TThousand == <<"1", ",", "0", "0", "0">>
TDate == <<"2", "0", "2", "3", "-", "1", "2", "-", "2", "5">>
TTrue == <<"t", "r", "u", "e">>
TBlank == <<" ">>
THuge == <<"1", "e", "9", "9", "9">>

\* a workbook as created: one empty sheet
Fresh == [names |-> <<"Sheet1">>, ws |-> [n \in {"Sheet1"} |-> EmptySheet]]

\* a workbook with data from B2 to C3, one cell of it formatted, and an
\* empty second sheet
Ledger ==
  [names |-> <<"Sheet1", "Blank">>,
   ws |-> [n \in {"Sheet1", "Blank"} |->
             IF n = "Blank" THEN EmptySheet
             ELSE ( <<2, 2>> :> [v |-> StrV(TBob), f |-> General]
                 @@ <<2, 3>> :> [v |-> FloatV(FALSE, 125, 1), f |-> FmtCurrencyCents]
                 @@ <<3, 2>> :> [v |-> StrV(THalf), f |-> General] )]]

InitFiles == {Fresh, Ledger}

\* the arguments of the calls: <<sheet, start, end>> of a read
ReadArgs ==
  {<<"Sheet1", A1, NoText>>, <<"Sheet1", A1, B2>>, <<"Sheet1", B2, NoText>>, <<"Sheet1", B2, C3>>,
   <<"Sheet1", D2, NoText>>, <<"Sheet1", D2, D2>>, <<"Sheet1", D2, BadAddress>>,
   <<"Blank", A1, NoText>>, <<"Blank", C3, NoText>>,
   <<"Sheet1", A1toB2, C3>>, <<"Sheet1", C3, A1>>,
   <<"Sheet1", BadAddress, NoText>>, <<"Sheet1", A1, BadAddress>>,
   <<"Sheet1", <<"A", "1", ":", "B", "2", ":", "C", "3">>, NoText>>,
   <<"Missing", A1, NoText>>}

\* the reads that ask for the validation records
ValidationArgs == {<<"Sheet1", A1, NoText>>, <<"Sheet1", D2, NoText>>}

\* the rows of the end-to-end example
ExampleRows == Rows(<< <<StrV(TName), StrV(TAmount)>>, <<StrV(TBob), StrV(TDollars)>> >>)

\* the rows of a write, as the tool receives them: JSON values
RowsArgs ==
  {NoRows, Rows(<<>>), Rows(<< <<>> >>),
   Rows(<< <<StrV(TName), StrV(TAmount)>>, <<StrV(TBob), StrV(TDollars)>> >>),
   Rows(<< <<StrV(THalf), StrV(TTrue)>>, <<StrV(TDate), IntV(5)>> >>),
   Rows(<< <<StrV(NoText), StrV(TBob)>> >>),
   Rows(<< <<StrV(TThousand), StrV(TBlank)>> >>),
   Rows(<< <<StrV(TThousand), DictV>> >>)}

\* <<sheet, start>> of a write
WriteTargets == {<<NoSheet, A1>>, <<"Sheet1", B2>>, <<"New", A1>>, <<"Sheet1", BadAddress>>}

\* <<sheet, start>> of a write of raw values
RawTargets == {<<"Sheet1", B2>>, <<"New", A1>>}

\* <<sheet, start, end>> of a format call
FormatArgs ==
  {<<"Sheet1", A1, NoText>>, <<"Sheet1", B2, C3>>, <<"Sheet1", A1, B2>>,
   <<"Sheet1", A1, BadAddress>>, <<"Missing", A1, NoText>>}

Call(op, sheet, start, end, data, flag, out) ==
  [op |-> op, sheet |-> sheet, start |-> start, end |-> end, data |-> data, flag |-> flag,
   before |-> file, out |-> out]

Init ==
  /\ file \in InitFiles
  /\ call = [op |-> "none"]
  /\ ncalls = 0
  /\ EXCEL_FILES_PATH = Unset
  /\ transport = "stdio"

\* readRange
ReadRange ==
  \E a \in ReadArgs :
    /\ ncalls < MaxCalls
    /\ call' = Call("read", a[1], a[2], a[3], NoRows, FALSE,
                    read_excel_range(file, a[1], a[2], a[3]))
    /\ file' = file
    /\ ncalls' = ncalls + 1
    /\ UNCHANGED <<EXCEL_FILES_PATH, transport>>

\* readRangeWithMetadata; flag is include_validation
ReadRangeWithMetadata ==
  \E a \in ReadArgs, include_validation \in BOOLEAN :
    /\ ncalls < MaxCalls
    /\ include_validation => a \in ValidationArgs
    /\ call' = Call("read_meta", a[1], a[2], a[3], NoRows, include_validation,
                    read_excel_range_with_metadata(file, a[1], a[2], a[3], include_validation))
    /\ file' = file
    /\ ncalls' = ncalls + 1
    /\ UNCHANGED <<EXCEL_FILES_PATH, transport>>

\* writeRange; flag is auto_detect_types
WriteRange ==
  \E t \in WriteTargets, data \in RowsArgs, auto_detect_types \in BOOLEAN :
    /\ ncalls < MaxCalls
    /\ ~auto_detect_types => t \in RawTargets
    /\ call' = Call("write", t[1], t[2], NoText, data, auto_detect_types,
                    write_data(file, t[1], data, t[2], auto_detect_types))
    /\ file' = call'.out.file
    /\ ncalls' = ncalls + 1
    /\ UNCHANGED <<EXCEL_FILES_PATH, transport>>

\* autoFormatRange
AutoFormatRange ==
  \E a \in FormatArgs :
    /\ ncalls < MaxCalls
    /\ call' = Call("format", a[1], a[2], a[3], NoRows, FALSE,
                    auto_format_data_range(file, a[1], a[2], a[3]))
    /\ file' = call'.out.file
    /\ ncalls' = ncalls + 1
    /\ UNCHANGED <<EXCEL_FILES_PATH, transport>>

Next == ReadRange \/ ReadRangeWithMetadata \/ WriteRange \/ AutoFormatRange

Spec == Init /\ [][Next]_vars

(***************************************************************************)
(* The inference on its own: every text over Alphabet of up to MaxLen      *)
(* characters, the texts of the examples, dates with and without a time,   *)
(* and the typed values a cell can hold.                                   *)
(***************************************************************************)
Alphabet == {"0", "1", "5", ",", ".", "%", "$", "-", "e", " "}

Texts == UNION {[1..n -> Alphabet] : n \in 0..MaxLen}

T(str) ==
  CASE str = "12/25/2023" -> <<"1", "2", "/", "2", "5", "/", "2", "0", "2", "3">>
    [] str = "25/12/2023" -> <<"2", "5", "/", "1", "2", "/", "2", "0", "2", "3">>
    [] str = "2023/12/25" -> <<"2", "0", "2", "3", "/", "1", "2", "/", "2", "5">>
    [] str = "01/02/2023" -> <<"0", "1", "/", "0", "2", "/", "2", "0", "2", "3">>
    [] str = "2023-02-30" -> <<"2", "0", "2", "3", "-", "0", "2", "-", "3", "0">>
    [] str = " 10:30" -> <<" ", "1", "0", ":", "3", "0">>
    [] str = " 10:30:45" -> <<" ", "1", "0", ":", "3", "0", ":", "4", "5">>
    [] str = " 24:00" -> <<" ", "2", "4", ":", "0", "0">>
    [] str = "TRUE" -> <<"T", "R", "U", "E">>
    [] str = " Yes " -> <<" ", "Y", "e", "s", " ">>
    [] str = "hello" -> <<"h", "e", "l", "l", "o">>
    [] str = "truth" -> <<"t", "r", "u", "t", "h">>
    [] str = "inf" -> <<"i", "n", "f">>
    [] str = "1.2.3%" -> <<"1", ".", "2", ".", "3", "%">>
    [] str = "-1,234.5" -> <<"-", "1", ",", "2", "3", "4", ".", "5">>
    [] str = "12.5%" -> <<"1", "2", ".", "5", "%">>
    [] str = "abc%" -> <<"a", "b", "c", "%">>

CalendarTexts ==
  {TDate, T("12/25/2023"), T("25/12/2023"), T("2023/12/25"), T("01/02/2023"), T("2023-02-30")}

ClockTexts == {NoText, T(" 10:30"), T(" 10:30:45"), T(" 24:00")}

DateTexts == {d \o c : d \in CalendarTexts, c \in ClockTexts}

ExampleTexts ==
  {TThousand, TDollars, THalf, TBob, TTrue, THuge, W("false"), W("yes"), W("no"),
   T("TRUE"), T(" Yes "), T("hello"), T("truth"), T("inf"), T("1.2.3%"), T("-1,234.5"),
   T("12.5%"), T("abc%")}

TypedValues ==
  {NoneV, BoolV(TRUE), BoolV(FALSE), IntV(0), IntV(1), IntV(-5), FloatV(FALSE, 5, -1),
   FloatV(TRUE, 125, 1), InfV(FALSE), DateV(2023, 12, 25), DateTimeV(2023, 12, 25, 10, 30, 0),
   DictV}

InferInputs == {StrV(s) : s \in Texts \cup DateTexts \cup ExampleTexts} \cup TypedValues

\* a call of the inference about to be made on one of the inputs
InitInfer ==
  /\ file = Fresh
  /\ call \in {[op |-> "input", arg |-> value] : value \in InferInputs}
  /\ ncalls = 0
  /\ EXCEL_FILES_PATH = Unset
  /\ transport = "stdio"

\* the call of _infer_and_convert_data_type returns
Infer ==
  /\ call.op = "input"
  /\ call' = [op |-> "infer", arg |-> call.arg, out |-> InferAndConvert(call.arg)]
  /\ UNCHANGED <<file, ncalls, EXCEL_FILES_PATH, transport>>

NextInfer == Infer

SpecInfer == InitInfer /\ [][NextInfer]_vars

(***************************************************************************)
(* autoFormatRange on its own, over sheets whose first row holds any two   *)
(* of the cell values below.                                               *)
(***************************************************************************)
CellValues ==
  {NoneV, StrV(TBob), StrV(THalf), StrV(TDollars), StrV(TThousand), StrV(TDate),
   StrV(TDate \o T(" 10:30")), StrV(TTrue), StrV(THuge), StrV(T("-1,234.5")),
   IntV(5), FloatV(FALSE, 5, -1)}

RowOf(a, b) ==
  [names |-> <<"Sheet1">>,
   ws |-> [n \in {"Sheet1"} |->
             Stored(<<1, 1>> :> [v |-> a, f |-> General] @@ <<1, 2>> :> [v |-> b, f |-> General])]]

InitFormat ==
  /\ file \in {RowOf(a, b) : a, b \in CellValues}
  /\ call = [op |-> "none"]
  /\ ncalls = 0
  /\ EXCEL_FILES_PATH = Unset
  /\ transport = "stdio"

NextFormat == AutoFormatRange

SpecFormat == InitFormat /\ [][NextFormat]_vars

(***************************************************************************)
(* The server: its start in one of the two transports, and the tools that  *)
(* resolve the path they are given before they touch a file.  A path is    *)
(* the sequence of its components, "/" first when it is absolute.  The one *)
(* workbook is stored at BookPath, and the process runs in Cwd.            *)
(***************************************************************************)
BookPath == <<"/", "srv", "book.xlsx">>
Cwd == <<"/", "srv">>

ErrFilename == "Invalid filename, must be an absolute path when not in SSE mode"
ErrNoFile == "No such file or directory"

\* os.path.isabs
isabs(filename) == filename # <<>> /\ filename[1] = "/"

\* os.path.join(base, filename)
join(base, filename) == IF isabs(filename) THEN filename ELSE base \o filename

\* a faulty variant: a relative path is taken from the working directory
\* when no base directory is configured
AmbientPath(base, filename) ==
  [ok |-> TRUE, exc |-> NoError,
   path |-> join(IF base.set THEN base.dir ELSE Cwd, filename)]

\* get_excel_path(filename), base being the value of EXCEL_FILES_PATH
get_excel_path(base, filename) ==
  IF isabs(filename) THEN [ok |-> TRUE, exc |-> NoError, path |-> filename]
  ELSE IF ~base.set THEN [ok |-> FALSE, exc |-> ValueError(ErrFilename), path |-> <<>>]
  ELSE [ok |-> TRUE, exc |-> NoError, path |-> join(base.dir, filename)]

NotDot(c) == c # "."

\* the file a path names: a relative path is taken from the working directory
Locate(path) == IF isabs(path) THEN path ELSE Cwd \o SelectSeq(path, NotDot)

\* return f"Error: {str(e)}" for the exception e
Answered(e) == [e EXCEPT !.kind = "text"]

\* a call that ended with exception e before any workbook was opened
Unopened(e, wb, sheet_name) == Outcome(FALSE, e, wb, sheet_name, 0, 0, FALSE, 0)

\* read_data_from_excel(filepath, sheet_name, start_cell, end_cell): every
\* exception is raised again
read_data_from_excel(base, wb, filepath, sheet_name, start_cell, end_cell) ==
  IF ~get_excel_path(base, filepath).ok
  THEN Unopened(get_excel_path(base, filepath).exc, wb, sheet_name)
  ELSE IF Locate(get_excel_path(base, filepath).path) # BookPath
  THEN Unopened(Reraise([ValueError(ErrNoFile) EXCEPT !.kind = "FileNotFoundError"]),
                wb, sheet_name)
  ELSE read_excel_range(wb, sheet_name, start_cell, end_cell) @@ [file |-> wb]

\* the answer of write_data_to_excel to the outcome out of write_data: a
\* DataError is answered as a text
WriteAnswer(out) == IF out.ok THEN out ELSE [out EXCEPT !.exc = Answered(out.exc)]

\* write_data_to_excel(filepath, sheet_name, data, start_cell, auto_detect_types)
write_data_to_excel(base, wb, filepath, sheet_name, data, start_cell, auto_detect_types) ==
  IF ~get_excel_path(base, filepath).ok
  THEN Unopened(get_excel_path(base, filepath).exc, wb, sheet_name)
  ELSE IF IsEmptyData(data)
  THEN WriteAnswer(write_data(wb, sheet_name, data, start_cell, auto_detect_types))
  ELSE IF Locate(get_excel_path(base, filepath).path) # BookPath
  THEN Unopened(Answered(Reraise([ValueError(ErrNoFile) EXCEPT !.kind = "FileNotFoundError"])),
                wb, sheet_name)
  ELSE WriteAnswer(write_data(wb, sheet_name, data, start_cell, auto_detect_types))

\* the texts of the file paths a tool is given
PathArgs == {BookPath, <<"book.xlsx">>, <<"/", "tmp", "book.xlsx">>}

\* the value of the environment variable EXCEL_FILES_PATH, if it is set
Environment == {Unset, Configured(<<"/", "srv">>)}

\* os.environ.get("EXCEL_FILES_PATH", "./excel_files")
EnvironGet(env) == IF env.set THEN env.dir ELSE <<".", "excel_files">>

ToolCall(op, filepath, sheet, start, end, data, flag, out) ==
  [op |-> op, filepath |-> filepath, base |-> EXCEL_FILES_PATH,
   resolved |-> get_excel_path(EXCEL_FILES_PATH, filepath),
   sheet |-> sheet, start |-> start, end |-> end, data |-> data, flag |-> flag,
   before |-> file, out |-> out]

InitServer ==
  /\ file \in InitFiles
  /\ call = [op |-> "none"]
  /\ ncalls = 0
  /\ EXCEL_FILES_PATH = Unset
  /\ transport = "none"

\* run_stdio: the global is left as it is
run_stdio ==
  /\ transport = "none"
  /\ transport' = "stdio"
  /\ UNCHANGED <<file, call, ncalls, EXCEL_FILES_PATH>>

\* run_sse: the global is set from the environment
run_sse ==
  \E env \in Environment :
    /\ transport = "none"
    /\ EXCEL_FILES_PATH' = Configured(EnvironGet(env))
    /\ transport' = "sse"
    /\ UNCHANGED <<file, call, ncalls>>

\* the tool read_data_from_excel is called
ReadTool ==
  \E filepath \in PathArgs, a \in {<<"Sheet1", A1, NoText>>, <<"Missing", A1, NoText>>} :
    /\ ncalls < MaxCalls
    /\ call' = ToolCall("read_data_from_excel", filepath, a[1], a[2], a[3], NoRows, FALSE,
                        read_data_from_excel(EXCEL_FILES_PATH, file, filepath, a[1], a[2], a[3]))
    /\ file' = file
    /\ ncalls' = ncalls + 1
    /\ UNCHANGED <<EXCEL_FILES_PATH, transport>>

\* the tool write_data_to_excel is called
WriteTool ==
  \E filepath \in PathArgs, data \in {Rows(<<>>), ExampleRows, Rows(<< <<StrV(THalf)>> >>)} :
    /\ ncalls < MaxCalls
    /\ call' = ToolCall("write_data_to_excel", filepath, "Sheet1", A1, NoText, data, TRUE,
                        write_data_to_excel(EXCEL_FILES_PATH, file, filepath, "Sheet1", data,
                                            A1, TRUE))
    /\ file' = call'.out.file
    /\ ncalls' = ncalls + 1
    /\ UNCHANGED <<EXCEL_FILES_PATH, transport>>

NextServer == run_stdio \/ run_sse \/ ReadTool \/ WriteTool

SpecServer == InitServer /\ [][NextServer]_vars

(***************************************************************************)
(* The properties.                                                         *)
(***************************************************************************)
\* the display format of the cell at position p of sheet n
FormatAt(wb, n, p) == IF n \in SheetNames(wb) THEN CellAt(wb.ws[n], p[1], p[2]).f ELSE General

\* the positions a workbook holds on sheet n
Held(wb, n) == IF n \in SheetNames(wb) THEN DOMAIN wb.ws[n] ELSE {}

\* C1: a writeRange call whose rows are absent or an empty list fails with
\* the no-data error, writes no cell and saves nothing: the stored file after
\* the call is the file the call found.
C1_EmptyRowsRejected ==
  (call.op = "write" /\ (~call.data.given \/ call.data.rows = <<>>)) =>
    /\ ~call.out.ok
    /\ call.out.error = ErrNoData
    /\ call.out.saves = 0
    /\ call.out.count = 0
    /\ file = call.before

C1_Witness ==
  /\ call.op = "write"
  /\ call.data = Rows(<<>>)
  /\ call.sheet = "New"
  /\ call.out.error = ErrNoData
  /\ file = call.before

\* C2: a writeRange call with autoDetect off leaves the display format of
\* every cell of every sheet as it was before the call, and when it succeeds
\* every written cell holds the raw input value as given.
C2_RawWriteKeepsFormats ==
  (call.op = "write" /\ ~call.flag) =>
    /\ \A n \in SheetNames(file) \cup SheetNames(call.before) :
         \A p \in Held(file, n) \cup Held(call.before, n) :
           FormatAt(file, n, p) = FormatAt(call.before, n, p)
    /\ call.out.ok =>
         \A i \in 1..Len(call.data.rows) : \A j \in 1..Len(call.data.rows[i]) :
           CellAt(file.ws[call.out.active_sheet],
                  ParseCell(call.start).row + i - 1,
                  ParseCell(call.start).col + j - 1).v = call.data.rows[i][j]

C2_Witness ==
  /\ call.op = "write" /\ ~call.flag /\ call.out.ok
  /\ call.before = Ledger /\ call.sheet = "Sheet1" /\ call.start = B2
  /\ call.data = ExampleRows
  /\ CellAt(file.ws["Sheet1"], 2, 3) = [v |-> StrV(TAmount), f |-> FmtCurrencyCents]
  /\ CellAt(file.ws["Sheet1"], 3, 3) = [v |-> StrV(TDollars), f |-> General]

\* a read call on an existing sheet that resolved its start beyond the
\* sheet's max row or max column
C3_StartBeyond ==
  /\ call.op \in {"read", "read_meta"}
  /\ call.sheet \in SheetNames(call.before)
  /\ call.out.stage \in {"end", "bounds", "done"}
  /\ \/ call.out.rect.start_row > max_row(call.before.ws[call.sheet])
     \/ call.out.rect.start_col > max_column(call.before.ws[call.sheet])

\* the empty result of a read: no rows, respectively no cell records
C3_EmptyResult == call.out.ok /\ call.out.error = "" /\ call.out.data = <<>>

\* the end address of the call, after the split of a start text that holds
\* a range, is absent or well-formed
C3_EndWellFormed ==
  LET sp == SplitStart(call.start, call.end)
  IN sp.ok /\ (sp.end_cell = <<>> \/ ParseCell(sp.end_cell).ok)

\* C3 as stated: readRange or readRangeWithMetadata on an existing sheet,
\* with the resolved start beyond the sheet's max row or max column, returns
\* the empty result and never raises.
C3_OutOfBoundsNeverRaises == C3_StartBeyond => C3_EmptyResult

\* C3, amended: the same, for a call whose end address is absent or
\* well-formed; a malformed end address is refused before the boundary is
\* looked at.
C3_OutOfBoundsReadsEmpty == (C3_StartBeyond /\ C3_EndWellFormed) => C3_EmptyResult

C3_Witness ==
  /\ call.op = "read_meta" /\ call.before = Ledger
  /\ call.sheet = "Sheet1" /\ call.start = D2 /\ call.end = D2
  /\ call.out.rect.start_col = 4 /\ max_column(call.before.ws["Sheet1"]) = 3
  /\ call.out.ok /\ call.out.data = <<>>

\* the trimmed text of the inferred input
Trimmed == Strip(ToStr(call.arg))

\* a plain number: an optional minus, then digits with optional thousands
\* separators and at most one decimal point, starting with a digit
C4_PlainNumber(s) ==
  LET b == IF s # <<>> /\ s[1] = "-" THEN Tail(s) ELSE s
  IN b # <<>> /\ b[1] \in Digits /\ MatchNumberBody(b)

\* C4: for a plain number text with no currency symbol, infer returns the
\* number with the separators stripped, with the integer format when there
\* is no decimal point and the decimal-two-places format when there is one;
\* "1,000" gives (1000, integer).
C4_PlainNumbersGetPlainFormats ==
  (call.op = "infer" /\ call.arg.k = "str" /\ C4_PlainNumber(Trimmed)) =>
    /\ call.out = IF Contains(Trimmed, ".")
                  THEN Inferred(PyFloat(Remove(Trimmed, {","})), FmtDecimal)
                  ELSE Inferred(PyInt(Remove(Trimmed, {","})), FmtInteger)
    /\ Trimmed = TThousand => call.out = Inferred(IntV(1000), FmtInteger)

\* the text before the trailing "%"
C5_Remainder == SubStr(Trimmed, 1, Len(Trimmed) - 1)

\* digits, commas and at most one decimal point, with a digit among them
C5_NumericRemainder(r) ==
  /\ \A i \in 1..Len(r) : r[i] \in Digits \cup {",", "."}
  /\ Cardinality({i \in 1..Len(r) : r[i] = "."}) <= 1
  /\ \E i \in 1..Len(r) : r[i] \in Digits

\* C5: percentage detection comes first.  A text with a trailing "%" whose
\* remainder is digits, commas and a decimal point gives the remainder,
\* commas stripped, over 100 with the percentage format ("50%" gives 0.5); a
\* text with a trailing "%" whose remainder is no number falls through the
\* later detectors: it comes back as text, with no percentage format and no
\* error.
C5_PercentageFirst ==
  (call.op = "infer" /\ call.arg.k = "str" /\ Trimmed # <<>> /\ Trimmed[Len(Trimmed)] = "%") =>
    /\ C5_NumericRemainder(C5_Remainder) =>
         call.out = Inferred(Div100(PyFloat(Remove(C5_Remainder, {","}))), FmtPercent)
    /\ PyFloat(Remove(C5_Remainder, {","})) = Fail =>
         call.out = Inferred(StrV(Trimmed), NoFormat)
    /\ Trimmed = THalf => call.out = Inferred(FloatV(FALSE, 5, -1), FmtPercent)

C5_Witness ==
  /\ call.op = "infer"
  /\ call.arg = StrV(T("12.5%"))
  /\ call.out = Inferred(FloatV(FALSE, 125, -3), FmtPercent)

\* C6: infer returns a boolean exactly when the trimmed, lower-cased input
\* is true, yes, false or no: True for true and yes, False for false and no,
\* with no display format; "0" and "1" come back as the integers 0 and 1.
C6_BooleanWords ==
  call.op = "infer" =>
    /\ call.out.v.k = "bool" <=> Lower(Trimmed) \in {W("true"), W("yes"), W("false"), W("no")}
    /\ Lower(Trimmed) \in {W("true"), W("yes")} => call.out = Inferred(BoolV(TRUE), NoFormat)
    /\ Lower(Trimmed) \in {W("false"), W("no")} => call.out = Inferred(BoolV(FALSE), NoFormat)
    /\ Trimmed = W("0") => call.out.v = IntV(0)
    /\ Trimmed = W("1") => call.out.v = IntV(1)

C6_Witness ==
  /\ call.op = "infer"
  /\ call.arg = StrV(T(" Yes "))
  /\ call.out = Inferred(BoolV(TRUE), NoFormat)

\* no stage takes the text: the numeric conversion, every date format and
\* the boolean words all refuse it
C7_Unmatched(s) ==
  /\ NumericDetect(s) = Raised
  /\ \A i \in 1..Len(date_formats) : Strptime(s, date_formats[i]) = Fail
  /\ Lower(s) \notin BoolTexts

\* C7: infer is total: it returns a pair and never an error; an absent,
\* empty or whitespace-only input gives (none, none); an input no detector
\* takes, "," and "1.2.3%" among them, comes back as the trimmed text with
\* no display format, and so does every text without a digit that is no
\* boolean word.
C7_InferTotal ==
  call.op = "infer" =>
    /\ call.out.v # Fail
    /\ call.out.v.k \in {"none", "str", "int", "float", "bool", "date", "datetime"}
    /\ (call.arg = NoneV \/ (call.arg.k = "str" /\ Trimmed = <<>>)) =>
         call.out = Inferred(NoneV, NoFormat)
    /\ (call.arg # NoneV /\ Trimmed # <<>> /\ C7_Unmatched(Trimmed)) =>
         call.out = Inferred(StrV(Trimmed), NoFormat)
    /\ (call.arg # NoneV /\ Trimmed # <<>> /\ Lower(Trimmed) \notin BoolTexts
        /\ \A i \in 1..Len(Trimmed) : Trimmed[i] \notin Digits) =>
         call.out = Inferred(StrV(Trimmed), NoFormat)
    /\ call.arg \in {StrV(<<",">>), StrV(T("1.2.3%"))} =>
         call.out = Inferred(call.arg, NoFormat)

C7_Witness ==
  /\ call.op = "infer"
  /\ call.arg = StrV(T("1.2.3%"))
  /\ NumericDetect(T("1.2.3%")) = Raised
  /\ call.out = Inferred(StrV(T("1.2.3%")), NoFormat)

\* the calendar formats and what may follow them, as the claim lists them
C8_Calendars ==
  << <<"Y", "-", "m", "-", "d">>, <<"m", "/", "d", "/", "Y">>,
     <<"d", "/", "m", "/", "Y">>, <<"Y", "/", "m", "/", "d">> >>

C8_Clocks == << <<>>, <<" ", "H", ":", "M">>, <<" ", "H", ":", "M", ":", "S">> >>

\* the listed patterns that match the whole text: <<calendar, clock>>
C8_Matching(s) ==
  {p \in (1..4) \X (1..3) : Strptime(s, C8_Calendars[p[1]] \o C8_Clocks[p[2]]) # Fail}

\* the first of them in the order of the list
C8_First(s) ==
  CHOOSE p \in C8_Matching(s) : \A q \in C8_Matching(s) : p[1] <= q[1]

\* C8: each of the calendar formats YYYY-MM-DD, MM/DD/YYYY, DD/MM/YYYY and
\* YYYY/MM/DD is accepted alone and followed by HH:MM or HH:MM:SS; the first
\* pattern that matches the whole text wins; the result is a date-time with
\* the date-time format exactly when the pattern has an hour, and otherwise
\* a date with the date format.
C8_CalendarFormatsAccepted ==
  (call.op = "infer" /\ call.arg.k = "str" /\ C8_Matching(Trimmed) # {}) =>
    LET fmt == C8_Calendars[C8_First(Trimmed)[1]] \o C8_Clocks[C8_First(Trimmed)[2]]
        at == Strptime(Trimmed, fmt)
    IN call.out = IF C8_First(Trimmed)[2] > 1
                  THEN Inferred(at, FmtDateTime)
                  ELSE Inferred(DateV(at.y, at.mo, at.d), FmtDate)

\* a writeRange call with detection on wrote non-empty rows into a sheet
\* that was new or empty, and the next call reads the same sheet with
\* metadata from the same start
C9_RoundTrip ==
  /\ call.op = "write" /\ call.flag /\ call.out.ok
  /\ call.data.rows # <<>>
  /\ Held(call.before, call.out.active_sheet) = {}
  /\ call'.op = "read_meta"
  /\ call'.sheet = call.out.active_sheet
  /\ call'.start = call.start /\ call'.end = NoText

\* the read returned exactly one record for the value written from position
\* <<i, j>> of the rows, at the start offset by i and j, with the inferred
\* value, and the cell has the inferred format when there is one
C9_Returned(i, j) ==
  LET inf == InferAndConvert(call.data.rows[i][j])
      row == ParseCell(call.start).row + i - 1
      col == ParseCell(call.start).col + j - 1
  IN /\ Cardinality({n \in 1..Len(call'.out.data) :
                       /\ call'.out.data[n].row = row
                       /\ call'.out.data[n].column = col
                       /\ call'.out.data[n].address = Address(row, col)
                       /\ call'.out.data[n].value = inf.v}) = 1
     /\ inf.f # NoFormat => CellAt(file'.ws[call'.sheet], row, col).f = inf.f

\* C9 as stated: after such a write the read returns, for every written
\* position, one record at the start offset additively, holding the inferred
\* value, the cell having the inferred format when one was produced.
C9_EveryPositionReturned ==
  [][C9_RoundTrip =>
       /\ call'.out.ok
       /\ \A i \in 1..Len(call.data.rows) : \A j \in 1..Len(call.data.rows[i]) :
            C9_Returned(i, j)]_vars

\* What the round trip does return: a record for every written position
\* whose inferred value is not none. A position given an empty or blank text
\* gets no value, is not stored, and may lie outside the boundary the read
\* resolves.
C9_EveryValueReturned ==
  [][C9_RoundTrip =>
       /\ call'.out.ok
       /\ \A i \in 1..Len(call.data.rows) : \A j \in 1..Len(call.data.rows[i]) :
            InferAndConvert(call.data.rows[i][j]).v # NoneV => C9_Returned(i, j)]_vars

\* the round trip of the example rows, read back in full
C9_Witness ==
  /\ call.op = "read_meta" /\ call.sheet = "Sheet1" /\ call.start = A1 /\ call.end = NoText
  /\ call.before = write_data(Fresh, NoSheet, ExampleRows, A1, TRUE).file
  /\ call.out.ok /\ Len(call.out.data) = 4
  /\ call.out.data[3].address = <<"A", "2">> /\ call.out.data[3].value = StrV(TBob)
  /\ call.out.data[4].address = B2 /\ call.out.data[4].value = FloatV(FALSE, 125, 1)
  /\ CellAt(file.ws["Sheet1"], 2, 2).f = FmtCurrencyCents

\* C10: autoFormatRange run twice in a row over the same range of a sheet:
\* the second run does not fail and reports the count of the first.
C10_SecondRunSameCount ==
  [][(/\ call.op = "format" /\ call.out.ok
      /\ call'.op = "format"
      /\ call'.sheet = call.sheet /\ call'.start = call.start /\ call'.end = call.end)
     => (call'.out.ok /\ call'.out.count = call.out.count)]_vars

\* the operations of data.py that raise their failures
C11_Operations == {"read", "read_meta", "write"}

\* C11: a readRange, readRangeWithMetadata or writeRange call that fails
\* raises an exception of the one kind DataError, and the message of that
\* DataError holds the message of the exception first raised.
C11_OnlyDataErrorEscapes ==
  (call.op \in C11_Operations /\ ~call.out.ok) =>
    /\ call.out.exc.kind = "DataError"
    /\ \E i \in 1..Len(call.out.exc.msg) : call.out.exc.msg[i] = call.out.exc.cause

\* a read failed on the ValueError of the split of a start text with two
\* colons, and the caller got a DataError with that message
C11_Witness ==
  /\ call.op = "read" /\ ~call.out.ok /\ call.out.stage = "split"
  /\ call.out.exc = [kind |-> "DataError", msg |-> <<ErrUnpack>>, cause |-> ErrUnpack]

\* the tools of the server that were called
C12_Tools == {"read_data_from_excel", "write_data_to_excel"}

\* C12: the base directory is unset until run_sse sets it and stays unset in
\* stdio mode; a tool resolves an absolute path to itself, a relative path
\* with no base directory to an explicit failure that opens no workbook and
\* leaves the stored file as it was, and a relative path with a base
\* directory to the base directory joined with the path.
C12_PathResolution ==
  /\ transport \in {"none", "stdio"} => EXCEL_FILES_PATH = Unset
  /\ transport = "sse" => EXCEL_FILES_PATH.set
  /\ call.op \in C12_Tools =>
       /\ isabs(call.filepath) => call.resolved.ok /\ call.resolved.path = call.filepath
       /\ (~isabs(call.filepath) /\ ~call.base.set) =>
            /\ ~call.resolved.ok /\ ~call.out.ok
            /\ call.out.exc = ValueError(ErrFilename)
            /\ call.out.opened = 0 /\ file = call.before
       /\ (~isabs(call.filepath) /\ call.base.set) =>
            call.resolved.ok /\ call.resolved.path = call.base.dir \o call.filepath

\* a stdio server was asked to write the example rows to a relative path,
\* and refused
C12_Witness ==
  /\ transport = "stdio" /\ call.op = "write_data_to_excel"
  /\ call.filepath = <<"book.xlsx">> /\ call.data = ExampleRows
  /\ ~call.out.ok /\ call.out.opened = 0 /\ file = call.before

\* the number of values in the rows of the last call
C13_Values == Len(Positions(call.data.rows, 1))

\* C13: a writeRange call saves the workbook at most once, and only after
\* it has written every value of every row; a call that fails after it
\* opened the workbook does not save, and the stored file after it is the
\* file the call found.
C13_SavedOnlyWhenComplete ==
  call.op = "write" =>
    /\ call.out.saves <= 1
    /\ call.out.saves = 1 => (call.out.ok /\ call.out.count = C13_Values)
    /\ (~call.out.ok /\ call.out.opened = 1) => (call.out.saves = 0 /\ file = call.before)

\* a write of raw values failed in mid-loop, at its second value, and the
\* first value is not in the stored file
C13_Witness ==
  /\ call.op = "write" /\ ~call.flag /\ ~call.out.ok /\ call.out.error = ErrConvert
  /\ call.sheet = "New" /\ call.out.count = 1 /\ call.out.opened = 1
  /\ call.out.saves = 0 /\ file = call.before

C15_TwoEndedIterated ==
  /\ call.op \in {"read", "read_meta"}
  /\ SplitStart(call.start, call.end).ok /\ SplitStart(call.start, call.end).end_cell # NoText
  /\ call.out.ok /\ call.out.stage = "done"

\* C15: a range given with both ends is iterated only with its start at or
\* before its end in both axes: a reversed range was swapped into order or
\* the call was refused, so no read iterates a reversed rectangle and
\* answers with nothing.
C15_RangeOrderedBeforeUse ==
  C15_TwoEndedIterated =>
    /\ call.out.rect.start_row <= call.out.rect.end_row
    /\ call.out.rect.start_col <= call.out.rect.end_col

\* the last call was the read op of an existing sheet, from a well-formed
\* start cell and with no end
C16_NoEnd(op) ==
  /\ call.op = op /\ call.sheet \in SheetNames(call.before)
  /\ ~Contains(call.start, ":") /\ call.end = NoText /\ ParseCell(call.start).ok

\* the sheet the last call read, as the call found it
C16_Sheet == call.before.ws[call.sheet]

C16_SingleEmpty ==
  max_row(C16_Sheet) = 1 /\ max_column(C16_Sheet) = 1 /\ CellAt(C16_Sheet, 1, 1).v = NoneV

\* the rectangle from the top-left cell at <<row, col>> to the sheet's maximum
C16_ToMaximum(row, col) ==
  [start_row |-> row, start_col |-> col,
   end_row |-> max_row(C16_Sheet), end_col |-> max_column(C16_Sheet)]

C16_StartCell ==
  [start_row |-> ParseCell(call.start).row, start_col |-> ParseCell(call.start).col,
   end_row |-> ParseCell(call.start).row, end_col |-> ParseCell(call.start).col]

\* C16: with no end given and a sheet that is not a single empty cell,
\* readRange resolves the sheet's boundary rectangle and returns what it
\* returns for the start A1, whatever the start; readRangeWithMetadata
\* resolves from the sheet's minimum when the start text is A1 and from the
\* start cell otherwise, to the sheet's maximum.  On a sheet that is a
\* single empty cell both resolve the start cell alone.
C16_NoEndResolution ==
  /\ (C16_NoEnd("read") /\ ~C16_SingleEmpty) =>
       /\ call.out.rect = C16_ToMaximum(min_row(C16_Sheet), min_column(C16_Sheet))
       /\ call.out = read_excel_range(call.before, call.sheet, A1, NoText)
  /\ (C16_NoEnd("read_meta") /\ ~C16_SingleEmpty) =>
       call.out.rect = IF call.start = A1
                       THEN C16_ToMaximum(min_row(C16_Sheet), min_column(C16_Sheet))
                       ELSE C16_ToMaximum(ParseCell(call.start).row, ParseCell(call.start).col)
  /\ ((C16_NoEnd("read") \/ C16_NoEnd("read_meta")) /\ C16_SingleEmpty) =>
       call.out.rect = C16_StartCell

\* a plain read from D2, outside the data in B2:C3, returned both rows of
\* the sheet
C16_Witness ==
  /\ call.op = "read" /\ call.start = D2 /\ call.end = NoText
  /\ call.before = Ledger /\ call.sheet = "Sheet1"
  /\ call.out.ok /\ Len(call.out.data) = 2
  /\ call.out.rect = [start_row |-> 2, start_col |-> 2, end_row |-> 3, end_col |-> 3]

\* the last call was a plain read that iterated the rectangle it resolved
C17_Iterated == call.op = "read" /\ call.out.ok /\ call.out.stage = "done"

C17_Sheet == call.before.ws[call.sheet]

\* the rows of the rectangle that hold a value in one of its columns
C17_Kept ==
  {r \in call.out.rect.start_row..call.out.rect.end_row :
     \E c \in call.out.rect.start_col..call.out.rect.end_col : CellAt(C17_Sheet, r, c).v # NoneV}

\* the n-th of the kept rows in ascending order
C17_Nth(n) == CHOOSE r \in C17_Kept : Cardinality({k \in C17_Kept : k <= r}) = n

\* C17: a plain read returns, in ascending row order, exactly the rows of
\* the rectangle that have a non-empty cell, each with one entry per column
\* of the rectangle in ascending column order, empty cells included; a
\* rectangle with no value gives the empty sequence.
C17_RowsWithValues ==
  C17_Iterated =>
    /\ Len(call.out.data) = Cardinality(C17_Kept)
    /\ \A n \in 1..Len(call.out.data) :
         /\ Len(call.out.data[n]) = call.out.rect.end_col - call.out.rect.start_col + 1
         /\ \A j \in 1..Len(call.out.data[n]) :
              call.out.data[n][j]
                = CellAt(C17_Sheet, C17_Nth(n), call.out.rect.start_col + j - 1).v

\* the read of A1:B2 over data in B2:C3 dropped the empty row 1 and kept
\* row 2 with its empty first cell
C17_Witness ==
  /\ C17_Iterated /\ call.before = Ledger /\ call.sheet = "Sheet1"
  /\ call.start = A1 /\ call.end = B2
  /\ call.out.data = << <<NoneV, StrV(TBob)>> >>

\* the last call was a read with metadata that iterated the rectangle it
\* resolved, the start of which lies inside the sheet's boundary
C18_Iterated == call.op = "read_meta" /\ call.out.ok /\ call.out.stage = "done"

C18_Height == call.out.rect.end_row - call.out.rect.start_row + 1
C18_Width == call.out.rect.end_col - call.out.rect.start_col + 1

\* the records are those of the cells of the rectangle in row-major order,
\* each with its own address, the cell's value, and a validation entry
\* exactly when the call asked for it
C18_Records ==
  \A n \in 1..Len(call.out.data) :
    LET row == call.out.rect.start_row + ((n - 1) \div C18_Width)
        col == call.out.rect.start_col + ((n - 1) % C18_Width)
    IN /\ call.out.data[n].row = row /\ call.out.data[n].column = col
       /\ call.out.data[n].address = ColumnLetter(col) \o NatDigits(row)
       /\ call.out.data[n].value = CellAt(call.before.ws[call.sheet], row, col).v
       /\ (call.out.data[n].validation # NotIncluded) <=> call.flag

\* C18: a read with metadata of an in-bounds rectangle returns
\* (end row - start row + 1) * (end col - start col + 1) records, one per
\* cell of the rectangle in row-major order, empty cells included, each with
\* the address of its row and column and with a validation entry exactly
\* when includeValidation is true.
C18_OneRecordPerCell ==
  C18_Iterated => (Len(call.out.data) = C18_Height * C18_Width /\ C18_Records)

\* What does hold: the same for a rectangle whose end does not precede its
\* start in either axis.
C18_OrderedOneRecordPerCell ==
  (C18_Iterated /\ C18_Height >= 1 /\ C18_Width >= 1) =>
    (Len(call.out.data) = C18_Height * C18_Width /\ C18_Records)

\* C19: autoFormatRange run a second time over the same range, right after
\* a run that succeeded, leaves every value and every display format of the
\* stored file as the first run left it.
C19_SecondRunChangesNothing ==
  [][(/\ call.op = "format" /\ call.out.ok
      /\ call'.op = "format"
      /\ call'.sheet = call.sheet /\ call'.start = call.start /\ call'.end = call.end)
     => file' = file]_vars
=============================================================================
